---------------------------- MODULE Spec2Model ----------------------------
(***************************************************************************)
(* collectd_network.py: packing of collectd values into one datagram of    *)
(* the collectd binary protocol and its dispatch over UDP.                 *)
(*                                                                         *)
(* The module is Python 2 code (basestring, str + "\0"): a string is a     *)
(* byte string, modelled as a sequence of byte values 0..255, and a        *)
(* datagram is the sequence of bytes handed to sock.sendto.                *)
(*                                                                         *)
(* Python values are dynamically typed; a value is a record                *)
(* [tag |-> <type name>, v |-> <sequence of integers>] so that the code's  *)
(* TypeError / struct.error paths (len(None), struct.pack of a non-number) *)
(* can be followed.                                                        *)
(***************************************************************************)
EXTENDS Integers, Sequences, FiniteSets, TLC

VARIABLES self, pc, args, loc, result, attempts, wire, now, pk

vars == <<self, pc, args, loc, result, attempts, wire, now, pk>>

-----------------------------------------------------------------------------
(* Bounds of the model *)

\* callers sharing the one Collectd instance in the concurrent specification
NumCallers == 2
\* the clock reading, in ticks, when the program starts and at its latest
ClockStart == 3
MaxClock == 4
\* clock ticks per second: time.time() is a float, the Time field whole seconds
TicksPerSecond == 2
\* dispatch() calls observed after one packet() call
MaxWire == 2
\* longest byte string handed to pack() on its own
MaxStrLen == 2

Callers == 1..NumCallers

-----------------------------------------------------------------------------
(* Type codes, lines 19-33 *)

TYPE_HOST            == 0
TYPE_TIME            == 1
TYPE_PLUGIN          == 2
TYPE_PLUGIN_INSTANCE == 3
TYPE_TYPE            == 4
TYPE_TYPE_INSTANCE   == 5
TYPE_VALUES          == 6
TYPE_INTERVAL        == 7
LONG_INT_CODES == {TYPE_TIME, TYPE_INTERVAL}
STRING_CODES == {TYPE_HOST, TYPE_PLUGIN, TYPE_PLUGIN_INSTANCE, TYPE_TYPE,
                 TYPE_TYPE_INSTANCE}
VALUE_GAUGE == 1

\* "!H" holds 0..USHRT_MAX
USHRT_MAX == 65535

-----------------------------------------------------------------------------
(* Python values *)

PyNone    == [tag |-> "NoneType", v |-> <<>>]
Unset     == [tag |-> "unset", v |-> <<>>]
PyStr(s)  == [tag |-> "str", v |-> s]
PyInt(n)  == [tag |-> "int", v |-> <<n>>]
PyFloat(t) == [tag |-> "float", v |-> <<t>>]
PyList(xs) == [tag |-> "list", v |-> xs]

\* the outcome of an expression: its bytes, or the exception it raised
Ok(bytes)  == [exc |-> "", bytes |-> bytes]
Raise(exc) == [exc |-> exc, bytes |-> <<>>]

\* truth value of a Python object, as the operator "or" tests it
Truthy(x) ==
  CASE x.tag = "NoneType" -> FALSE
    [] x.tag = "int"      -> x.v[1] # 0
    [] x.tag = "float"    -> x.v[1] # 0
    [] OTHER              -> Len(x.v) > 0

-----------------------------------------------------------------------------
(* struct.pack formats *)

\* "!H": 16-bit unsigned, big-endian
U16BE(n) == <<n \div 256, n % 256>>

\* "!q": 64-bit signed, big-endian, two's complement (|n| < 2^31 here)
ByteOf(n, k) ==
  LET p == 256 ^ k
  IN  IF n >= 0 THEN (n \div p) % 256
      ELSE 255 - ((((-n) - 1) \div p) % 256)
I64BE(n) ==
  <<IF n >= 0 THEN 0 ELSE 255, IF n >= 0 THEN 0 ELSE 255,
    IF n >= 0 THEN 0 ELSE 255, IF n >= 0 THEN 0 ELSE 255,
    ByteOf(n, 3), ByteOf(n, 2), ByteOf(n, 1), ByteOf(n, 0)>>

\* floor(log2(m)) for m >= 1
RECURSIVE Log2(_)
Log2(m) == IF m < 2 THEN 0 ELSE 1 + Log2(m \div 2)

Abs(n) == IF n < 0 THEN -n ELSE n

\* "<d": IEEE-754 double, little-endian, of an integer value |v| < 2^20:
\* sign bit, 11-bit biased exponent, 52-bit fraction whose low 32 bits are 0
F64LE(v) ==
  IF v = 0 THEN <<0, 0, 0, 0, 0, 0, 0, 0>>
  ELSE LET e    == Log2(Abs(v))
           bexp == 1023 + e
           frac == (Abs(v) - 2 ^ e) * 2 ^ (20 - e)
           sign == IF v < 0 THEN 128 ELSE 0
       IN  <<0, 0, 0, 0,
             frac % 256,
             (frac \div 256) % 256,
             (bexp % 16) * 16 + (frac \div 65536),
             sign + (bexp \div 16)>>

\* the integer conversion struct.pack applies to the argument of "q":
\* an int as it is, a float through __int__ (truncation), else struct.error
AsInteger(x) ==
  CASE x.tag = "int"   -> PyInt(x.v[1])
    [] x.tag = "float" -> PyInt(x.v[1] \div TicksPerSecond)
    [] OTHER           -> PyNone

-----------------------------------------------------------------------------
(* pack_numeric, pack_string, pack_value, pack: lines 42-62 *)

pack_numeric(type_code, number) ==
  IF AsInteger(number) = PyNone THEN Raise("struct.error")
  ELSE Ok(U16BE(type_code) \o U16BE(12) \o I64BE(AsInteger(number).v[1]))

\* pack_string gone wrong: the length without the NUL; no NUL appended
pack_string_short(type_code, string) ==
  IF string.tag # "str" THEN Raise("TypeError")
  ELSE IF 4 + Len(string.v) > USHRT_MAX THEN Raise("struct.error")
  ELSE Ok(U16BE(type_code) \o U16BE(4 + Len(string.v)) \o string.v \o <<0>>)

pack_string_noterm(type_code, string) ==
  IF string.tag # "str" THEN Raise("TypeError")
  ELSE IF 5 + Len(string.v) > USHRT_MAX THEN Raise("struct.error")
  ELSE Ok(U16BE(type_code) \o U16BE(5 + Len(string.v)) \o string.v)

\* len(string) is a TypeError for None and for a number; a list has a len
\* but cannot be added to a str
pack_string(type_code, string) ==
  IF string.tag # "str" THEN Raise("TypeError")
  ELSE IF 5 + Len(string.v) > USHRT_MAX THEN Raise("struct.error")
  ELSE Ok(U16BE(type_code) \o U16BE(5 + Len(string.v)) \o string.v \o <<0>>)

\* struct.pack("<Bd", VALUE_GAUGE, value); the values of this model are
\* integers (which "d" converts to a double) or not numbers at all
PackGauge(value) ==
  IF value.tag # "int" THEN Raise("struct.error")
  ELSE Ok(<<VALUE_GAUGE>> \o F64LE(value.v[1]))

\* pack(TYPE_TYPE_INSTANCE, name) inside pack_value takes the string branch
pack_value(name, value) ==
  LET ti == pack_string(TYPE_TYPE_INSTANCE, name)
      g  == PackGauge(value)
  IN  IF ti.exc # "" THEN ti
      ELSE IF g.exc # "" THEN g
      ELSE Ok(ti.bytes \o U16BE(TYPE_VALUES) \o U16BE(15) \o U16BE(1) \o g.bytes)

pack(id, value) ==
  IF id.tag = "str" THEN pack_value(id, value)
  ELSE IF id.v[1] \in LONG_INT_CODES THEN pack_numeric(id.v[1], value)
  ELSE IF id.v[1] \in STRING_CODES THEN pack_string(id.v[1], value)
  ELSE Raise("AssertionError")

-----------------------------------------------------------------------------
(* Reference decoder of the wire format (collectd binary protocol): a part  *)
(* is a 2-byte type, a 2-byte length that counts the whole part, its 4     *)
(* header bytes included, and the payload.                                  *)

U16At(b, i) == b[i] * 256 + b[i + 1]

\* the parts of a datagram; a part that does not fit gets code -1 and ends it
RECURSIVE ParseParts(_)
ParseParts(b) ==
  IF Len(b) = 0 THEN <<>>
  ELSE IF Len(b) < 4 \/ U16At(b, 3) < 4 \/ U16At(b, 3) > Len(b)
       THEN <<[code |-> -1, len |-> 0, payload |-> b]>>
  ELSE <<[code |-> U16At(b, 1), len |-> U16At(b, 3),
          payload |-> SubSeq(b, 5, U16At(b, 3))]>>
       \o ParseParts(SubSeq(b, U16At(b, 3) + 1, Len(b)))

\* the text of a string part: its payload without the terminating NUL
TextOf(part) ==
  IF Len(part.payload) > 0 /\ part.payload[Len(part.payload)] = 0
  THEN SubSeq(part.payload, 1, Len(part.payload) - 1)
  ELSE <<-1>>

\* decode_string: the (type code, text) of one encoded string field
decode_string(b) ==
  LET parts == ParseParts(b)
  IN  IF Len(parts) = 1 /\ parts[1].code >= 0
      THEN [code |-> parts[1].code, text |-> TextOf(parts[1])]
      ELSE [code |-> -1, text |-> <<-1>>]

\* the signed 64-bit big-endian integer of a numeric part (|n| < 2^31)
I64Of(p) ==
  IF Len(p) # 8 THEN -1
  ELSE IF p[1] = 0
       THEN ((p[5] * 256 + p[6]) * 256 + p[7]) * 256 + p[8]
       ELSE -1 - ((((255 - p[5]) * 256 + (255 - p[6])) * 256 + (255 - p[7])) * 256
                    + (255 - p[8]))

\* the integer an 8-byte little-endian IEEE-754 double stands for
F64Of(p) ==
  LET bexp == (p[8] % 128) * 16 + (p[7] \div 16)
      frac == ((p[7] % 16) * 256 + p[6]) * 256 + p[5]
      e    == bexp - 1023
      mag  == IF bexp = 0 THEN 0 ELSE 2 ^ e + frac \div (2 ^ (20 - e))
  IN  IF p[8] >= 128 THEN -mag ELSE mag

\* the Values part: count, the tags, the values
ValuesOf(part) ==
  LET p == part.payload
      n == IF Len(p) >= 2 THEN U16At(p, 1) ELSE -1
  IN  [count |-> n,
       tags  |-> IF n >= 0 /\ Len(p) >= 2 + n THEN SubSeq(p, 3, 2 + n) ELSE <<>>,
       vals  |-> IF n >= 0 /\ Len(p) = 2 + 9 * n
                 THEN [i \in 1..n |-> F64Of(SubSeq(p, 3 + n + 8 * (i - 1), 2 + n + 8 * i))]
                 ELSE <<>>]

-----------------------------------------------------------------------------
(* Inputs *)

Bytes(str) ==
  CASE str = ""       -> <<>>
    [] str = "h1"     -> <<104, 49>>
    [] str = "h2"     -> <<104, 50>>
    [] str = "p"      -> <<112>>
    [] str = "python" -> <<112, 121, 116, 104, 111, 110>>
    [] str = "pi"     -> <<112, 105>>
    [] str = "t"      -> <<116>>
    [] str = "cpu"    -> <<99, 112, 117>>
    [] str = "ti"     -> <<116, 105>>
    [] str = "user"   -> <<117, 115, 101, 114>>

\* packet()'s keyword defaults, lines 77-81: host = socket.gethostname(),
\* evaluated once when the class body is read
DefaultHost           == PyStr(Bytes("h1"))
DefaultPlugin         == PyStr(Bytes("python"))
DefaultTypeInstance   == PyStr(Bytes(""))
DefaultPluginInstance == PyNone
DefaultTime           == PyNone

PluginTypes     == {PyStr(Bytes("t")), PyStr(Bytes("cpu"))}
ValueLists      == {PyList(<<>>), PyList(<<42>>), PyList(<<3, -2>>)}
Hosts           == {DefaultHost}
Plugins         == {DefaultPlugin}
TypeInstances   == {DefaultTypeInstance, PyStr(Bytes("ti")), PyNone}
PluginInstances == {DefaultPluginInstance, PyStr(Bytes("")), PyStr(Bytes("pi"))}
Times           == {DefaultTime, PyInt(0), PyInt(1000)}

\* the arguments of one packet() call
Samples ==
  [plugin_type : PluginTypes, values : ValueLists, host : Hosts,
   plugin : Plugins, type_instance : TypeInstances,
   plugin_instance : PluginInstances, time : Times]

\* the sample of each concurrent caller: they differ in every field
ConcSample(c) ==
  IF c = 1
  THEN [plugin_type |-> PyStr(Bytes("t")), values |-> PyList(<<42>>),
        host |-> PyStr(Bytes("h1")), plugin |-> PyStr(Bytes("p")),
        type_instance |-> PyStr(Bytes("ti")),
        plugin_instance |-> PyStr(Bytes("pi")), time |-> PyInt(1000)]
  ELSE [plugin_type |-> PyStr(Bytes("cpu")), values |-> PyList(<<3, -2>>),
        host |-> PyStr(Bytes("h2")), plugin |-> PyStr(Bytes("python")),
        type_instance |-> PyStr(Bytes("user")),
        plugin_instance |-> PyStr(Bytes("")), time |-> PyInt(1000 + c)]

NoArgs ==
  [plugin_type |-> Unset, values |-> Unset, host |-> Unset, plugin |-> Unset,
   type_instance |-> Unset, plugin_instance |-> Unset, time |-> Unset]

\* the interval given to the constructor (default 30)
Intervals == {PyInt(30), PyInt(10)}

NoLocals ==
  [header |-> <<>>, length_of_value_parts |-> 0, value_parts |-> <<>>,
   msg |-> <<>>, began |-> 0]

\* pack() was not called yet
NoOutcome == Raise("none")
NoPack == [id |-> PyNone, value |-> PyNone, out |-> NoOutcome]

-----------------------------------------------------------------------------
(* Collectd.__init__, lines 68-72 *)

Init ==
  /\ self \in {[host |-> Unset, time |-> Unset, plugin |-> Unset,
                plugin_instance |-> Unset, plugin_type |-> Unset,
                type_instance |-> Unset, values |-> Unset,
                interval |-> i,
                collectd_addr |-> [host |-> "localhost", port |-> 25826]]
               : i \in Intervals}
  /\ pc = [c \in Callers |-> 0]
  /\ args = [c \in Callers |-> NoArgs]
  /\ loc = [c \in Callers |-> NoLocals]
  /\ result = [c \in Callers |-> "none"]
  /\ attempts = [c \in Callers |-> 0]
  /\ wire = <<>>
  /\ now = ClockStart
  /\ pk = NoPack

-----------------------------------------------------------------------------
(* Collectd.packet, lines 74-91.  pc[c] is the source line caller c is     *)
(* about to execute, 0 outside a call.                                      *)

\* the assignment at one line of packet()
AssignLine(s, line, a) ==
  CASE line = 85 -> [s EXCEPT !.plugin_type = a.plugin_type]
    [] line = 86 -> [s EXCEPT !.type_instance = a.type_instance]
    [] line = 87 -> [s EXCEPT !.host = a.host]
    [] line = 88 -> [s EXCEPT !.plugin = a.plugin]
    [] line = 89 -> [s EXCEPT !.plugin_instance = a.plugin_instance]
    [] line = 90 -> [s EXCEPT !.time = a.time]
    [] line = 91 -> [s EXCEPT !.values = a.values]

RECURSIVE AssignThrough(_, _, _)
AssignThrough(s, line, a) ==
  IF line > 91 THEN s ELSE AssignThrough(AssignLine(s, line, a), line + 1, a)

\* packet() entered with arguments a: nothing is checked, nothing can fail.
\* args, result, attempts and wire observe the calls: the arguments of the
\* caller's latest packet(), and what dispatch() did since then.
PacketEnter(c, a) ==
  /\ pc[c] = 0
  /\ args' = [args EXCEPT ![c] = a]
  /\ result' = [result EXCEPT ![c] = "none"]
  /\ attempts' = [attempts EXCEPT ![c] = 0]
  /\ wire' = <<>>
  /\ UNCHANGED <<loc, now, pk>>

\* one whole packet() call of a caller nobody interleaves with
Packet(c, a) ==
  /\ PacketEnter(c, a)
  /\ self' = AssignThrough(self, 85, a)
  /\ UNCHANGED pc

\* packet() statement by statement, for callers that interleave
PacketCall(c) ==
  /\ args[c] = NoArgs
  /\ PacketEnter(c, ConcSample(c))
  /\ pc' = [pc EXCEPT ![c] = 85]
  /\ UNCHANGED self

PacketAssign(c) ==
  /\ pc[c] \in 85..91
  /\ self' = AssignLine(self, pc[c], args[c])
  /\ pc' = [pc EXCEPT ![c] = IF pc[c] = 91 THEN 0 ELSE pc[c] + 1]
  /\ UNCHANGED <<args, loc, result, attempts, wire, now, pk>>

-----------------------------------------------------------------------------
(* Collectd.dispatch, lines 94-127 *)

DispatchCall(c) ==
  /\ pc[c] = 0
  /\ Len(wire) < MaxWire
  /\ pc' = [pc EXCEPT ![c] = 97]
  /\ loc' = [loc EXCEPT ![c] = [NoLocals EXCEPT !.began = now]]
  /\ result' = [result EXCEPT ![c] = "none"]
  /\ attempts' = [attempts EXCEPT ![c] = 0]
  /\ UNCHANGED <<self, args, wire, now, pk>>

\* an exception leaves dispatch(): its locals are gone, nothing else changes
Throw(c, exc) ==
  /\ pc' = [pc EXCEPT ![c] = 0]
  /\ loc' = [loc EXCEPT ![c] = NoLocals]
  /\ result' = [result EXCEPT ![c] = exc]
  /\ UNCHANGED <<self, args, attempts, wire, now, pk>>

\* one element of the header list, lines 97-102: the attribute is read (an
\* attribute packet() never set is an AttributeError) and packed
HeaderField(c, code, value, next) ==
  IF value = Unset THEN Throw(c, "AttributeError")
  ELSE IF pack(PyInt(code), value).exc # ""
       THEN Throw(c, pack(PyInt(code), value).exc)
  ELSE /\ loc' = [loc EXCEPT ![c].header =
                    Append(@, pack(PyInt(code), value).bytes)]
       /\ pc' = [pc EXCEPT ![c] = next]
       /\ UNCHANGED <<self, args, result, attempts, wire, now, pk>>

\* time.time(): the clock as a float
TimeTime == PyFloat(now)

\* self.time or time.time(): "or" takes the clock for None and for 0 alike
TimeOrNow(t) == IF t = Unset THEN Unset ELSE IF Truthy(t) THEN t ELSE TimeTime

DispatchHost(c) ==
  pc[c] = 97 /\ HeaderField(c, TYPE_HOST, self.host, 98)
DispatchTime(c) ==
  pc[c] = 98 /\ HeaderField(c, TYPE_TIME, TimeOrNow(self.time), 99)
DispatchPlugin(c) ==
  pc[c] = 99 /\ HeaderField(c, TYPE_PLUGIN, self.plugin, 100)
DispatchPluginInstance(c) ==
  pc[c] = 100 /\ HeaderField(c, TYPE_PLUGIN_INSTANCE, self.plugin_instance, 101)
DispatchType(c) ==
  pc[c] = 101 /\ HeaderField(c, TYPE_TYPE, self.plugin_type, 102)
DispatchInterval(c) ==
  pc[c] = 102 /\ HeaderField(c, TYPE_INTERVAL, self.interval, 105)

\* len(self.values)
HasLen(x) == x.tag \in {"list", "str"}

\* line 105; 15 is pack_value's length, right for one value only
LengthOfOneValue(n) == 15
LengthOfValueParts(n) == 2 + 2 + 2 + n * (1 + 8)

DispatchLength(c) ==
  /\ pc[c] = 105
  /\ IF self.values = Unset THEN Throw(c, "AttributeError")
     ELSE IF ~HasLen(self.values) THEN Throw(c, "TypeError")
     ELSE /\ loc' = [loc EXCEPT ![c].length_of_value_parts =
                       LengthOfValueParts(Len(self.values.v))]
          /\ pc' = [pc EXCEPT ![c] = 114]
          /\ UNCHANGED <<self, args, result, attempts, wire, now, pk>>

\* line 114
DispatchTypeInstance(c) ==
  /\ pc[c] = 114
  /\ IF self.type_instance = Unset THEN Throw(c, "AttributeError")
     ELSE IF pack(PyInt(TYPE_TYPE_INSTANCE), self.type_instance).exc # ""
          THEN Throw(c, pack(PyInt(TYPE_TYPE_INSTANCE), self.type_instance).exc)
     ELSE /\ loc' = [loc EXCEPT ![c].value_parts =
                       <<pack(PyInt(TYPE_TYPE_INSTANCE), self.type_instance).bytes>>]
          /\ pc' = [pc EXCEPT ![c] = 115]
          /\ UNCHANGED <<self, args, result, attempts, wire, now, pk>>

\* lines 115-116: struct.pack("!HHH", TYPE_VALUES, length_of_value_parts,
\* len(self.values)), self.values read again
DispatchValuesHeader(c) ==
  /\ pc[c] = 115
  /\ IF self.values = Unset THEN Throw(c, "AttributeError")
     ELSE IF ~HasLen(self.values) THEN Throw(c, "TypeError")
     ELSE IF loc[c].length_of_value_parts > USHRT_MAX
             \/ Len(self.values.v) > USHRT_MAX
          THEN Throw(c, "struct.error")
     ELSE /\ loc' = [loc EXCEPT ![c].value_parts =
                       Append(@, U16BE(TYPE_VALUES)
                                   \o U16BE(loc[c].length_of_value_parts)
                                   \o U16BE(Len(self.values.v)))]
          /\ pc' = [pc EXCEPT ![c] = 119]
          /\ UNCHANGED <<self, args, result, attempts, wire, now, pk>>

\* lines 119-120: one tag per value; self.values is read when the loop starts
ValueTags(xs) == [i \in 1..Len(xs) |-> <<VALUE_GAUGE>>]

DispatchTags(c) ==
  /\ pc[c] = 119
  /\ loc' = [loc EXCEPT ![c].value_parts = @ \o ValueTags(self.values.v)]
  /\ pc' = [pc EXCEPT ![c] = 121]
  /\ UNCHANGED <<self, args, result, attempts, wire, now, pk>>

\* lines 121-122: one double per value
ValuePayloads(xs) == [i \in 1..Len(xs) |-> F64LE(xs[i])]

DispatchPayloads(c) ==
  /\ pc[c] = 121
  /\ loc' = [loc EXCEPT ![c].value_parts = @ \o ValuePayloads(self.values.v)]
  /\ pc' = [pc EXCEPT ![c] = 125]
  /\ UNCHANGED <<self, args, result, attempts, wire, now, pk>>

\* "".join(parts)
RECURSIVE Join(_)
Join(parts) == IF parts = <<>> THEN <<>> ELSE Head(parts) \o Join(Tail(parts))

\* lines 125-126 (header was joined at line 96)
JoinMsgBodyFirst(header, body) == body \o header
JoinMsg(header, body) == header \o body

DispatchJoin(c) ==
  /\ pc[c] = 125
  /\ loc' = [loc EXCEPT ![c].msg = JoinMsg(Join(loc[c].header),
                                           Join(loc[c].value_parts))]
  /\ pc' = [pc EXCEPT ![c] = 127]
  /\ UNCHANGED <<self, args, result, attempts, wire, now, pk>>

\* where dispatch() calls sendto: line 127, after everything was packed
\* (and not from wherever an exception would leave the method)
SendPointAnywhere(c) == pc[c] \in 97..127
SendPoint(c) == pc[c] = 127

\* line 127: the socket takes the datagram, or raises socket.error
DispatchSendto(c) ==
  /\ SendPoint(c)
  /\ attempts' = [attempts EXCEPT ![c] = @ + 1]
  /\ pc' = [pc EXCEPT ![c] = 0]
  /\ loc' = [loc EXCEPT ![c] = NoLocals]
  /\ \E accepted \in BOOLEAN :
       IF accepted
       THEN /\ wire' = Append(wire,
                 [by |-> c, msg |-> loc[c].msg, to |-> self.collectd_addr,
                  parts |-> loc[c].header \o loc[c].value_parts,
                  began |-> loc[c].began, ended |-> now])
            /\ result' = [result EXCEPT ![c] = "ok"]
       ELSE /\ wire' = wire
            /\ result' = [result EXCEPT ![c] = "socket.error"]
  /\ UNCHANGED <<self, args, now, pk>>

DispatchStep(c) ==
  \/ DispatchHost(c)
  \/ DispatchTime(c)
  \/ DispatchPlugin(c)
  \/ DispatchPluginInstance(c)
  \/ DispatchType(c)
  \/ DispatchInterval(c)
  \/ DispatchLength(c)
  \/ DispatchTypeInstance(c)
  \/ DispatchValuesHeader(c)
  \/ DispatchTags(c)
  \/ DispatchPayloads(c)
  \/ DispatchJoin(c)
  \/ DispatchSendto(c)

\* the wall clock moves on
Tick ==
  /\ now < MaxClock
  /\ now' = now + 1
  /\ UNCHANGED <<self, pc, args, loc, result, attempts, wire, pk>>

-----------------------------------------------------------------------------
(* One caller: packet() and dispatch() in any order, any number of times *)

Next ==
  \/ \E a \in Samples : Packet(1, a)
  \/ DispatchCall(1)
  \/ DispatchStep(1)
  \/ Tick

Spec == Init /\ [][Next]_vars

(* Callers sharing the instance: each performs packet(...) and then         *)
(* dispatch(), their statements interleaved.  The samples carry explicit    *)
(* timestamps, so the clock is not read.                                    *)

ConcDispatchCall(c) ==
  /\ args[c] # NoArgs
  /\ result[c] = "none"
  /\ DispatchCall(c)

NextConc ==
  \E c \in Callers :
    \/ PacketCall(c)
    \/ PacketAssign(c)
    \/ ConcDispatchCall(c)
    \/ DispatchStep(c)

SpecConc == Init /\ [][NextConc]_vars

(* pack() on its own *)

RECURSIVE StringsUpTo(_)
StringsUpTo(n) ==
  IF n = 0 THEN {<<>>}
  ELSE StringsUpTo(n - 1)
       \cup {Append(s, b) : s \in {t \in StringsUpTo(n - 1) : Len(t) = n - 1},
                            b \in {0, 65, 200}}

\* the argument expression "x" * n, and the string it evaluates to
StrTimes(b, n) == [tag |-> "str*", v |-> <<b, n>>]
Eval(x) == IF x.tag = "str*" THEN PyStr([i \in 1..x.v[2] |-> x.v[1]]) ELSE x

PackIds == {PyInt(code) : code \in 0..8} \cup {PyStr(Bytes("ti"))}
PackValues ==
  {PyStr(s) : s \in StringsUpTo(MaxStrLen)}
  \cup {StrTimes(120, USHRT_MAX - 5), StrTimes(120, USHRT_MAX - 4)}
  \cup {PyNone, PyInt(0), PyInt(1000), PyInt(-2)}

\* the arguments are drawn first, then pack() is applied to them once
InitPack ==
  /\ self = [host |-> Unset, time |-> Unset, plugin |-> Unset,
             plugin_instance |-> Unset, plugin_type |-> Unset,
             type_instance |-> Unset, values |-> Unset,
             interval |-> PyInt(30),
             collectd_addr |-> [host |-> "localhost", port |-> 25826]]
  /\ pc = [c \in Callers |-> 0]
  /\ args = [c \in Callers |-> NoArgs]
  /\ loc = [c \in Callers |-> NoLocals]
  /\ result = [c \in Callers |-> "none"]
  /\ attempts = [c \in Callers |-> 0]
  /\ wire = <<>>
  /\ now = ClockStart
  /\ pk \in [id : PackIds, value : PackValues, out : {NoOutcome}]

PackCall ==
  /\ pk.out = NoOutcome
  /\ pk' = [pk EXCEPT !.out = pack(pk.id, Eval(pk.value))]
  /\ UNCHANGED <<self, pc, args, loc, result, attempts, wire, now>>

SpecPack == InitPack /\ [][PackCall]_vars

-----------------------------------------------------------------------------
(* What a datagram says, read back with the reference decoder *)

WireOrder ==
  <<TYPE_HOST, TYPE_TIME, TYPE_PLUGIN, TYPE_PLUGIN_INSTANCE, TYPE_TYPE,
    TYPE_INTERVAL, TYPE_TYPE_INSTANCE, TYPE_VALUES>>

Codes(msg) == LET p == ParseParts(msg) IN [i \in 1..Len(p) |-> p[i].code]

\* the sample a well-formed datagram carries
Decoded(msg) ==
  LET p == ParseParts(msg)
  IN  [host |-> PyStr(TextOf(p[1])), time |-> PyInt(I64Of(p[2].payload)),
       plugin |-> PyStr(TextOf(p[3])), plugin_instance |-> PyStr(TextOf(p[4])),
       plugin_type |-> PyStr(TextOf(p[5])),
       type_instance |-> PyStr(TextOf(p[7])),
       values |-> PyList(ValuesOf(p[8]).vals)]

\* the eight fields of a datagram as dispatch() built them: the six header
\* elements, the Type Instance, and the Values field (its header, tags and
\* payloads)
BuiltFields(d) ==
  [i \in 1..8 |-> IF i < 8 THEN d.parts[i]
                  ELSE Join(SubSeq(d.parts, 8, Len(d.parts)))]

OnWire == {wire[i] : i \in 1..Len(wire)}

EncodingErrors == {"TypeError", "struct.error", "AttributeError", "AssertionError"}

-----------------------------------------------------------------------------
(* C1: with concurrent callers sharing the instance, every datagram carries *)
(* the fields of exactly one caller's packet() call, and a caller's         *)
(* dispatch() sends that caller's own sample.  (Fails: the sample is kept   *)
(* in the shared instance.)                                                 *)
C1_OwnSampleSent ==
  \A d \in OnWire :
    /\ Codes(d.msg) = WireOrder
    /\ \E x \in Callers : Decoded(d.msg) = args[x]
    /\ Decoded(d.msg) = args[d.by]

(* C2: a dispatch() call hands one fully assembled datagram to the socket   *)
(* or fails and hands it nothing: sendto is not reached while the message   *)
(* is being assembled, is called at most once per call, and is not called   *)
(* at all by a call that an encoding failure ended.                         *)
C2_AllOrNothing ==
  /\ \A c \in Callers :
       /\ attempts[c] <= 1
       /\ (pc[c] # 0 => attempts[c] = 0)
       /\ (result[c] \in EncodingErrors => attempts[c] = 0)
       /\ (result[c] \in {"ok", "socket.error"} => attempts[c] = 1)
  /\ \A d \in OnWire :
       LET p == ParseParts(d.msg)
       IN  /\ Len(d.parts) >= 8
           /\ d.msg = Join(d.parts)
           /\ Len(p) = 8
           /\ \A i \in 1..8 : p[i].code >= 0

\* a call that failed on the Type Instance, after the header was assembled
C2_Witness ==
  /\ result[1] = "TypeError"
  /\ attempts[1] = 0
  /\ wire = <<>>
  /\ self.plugin_instance # PyNone
  /\ self.type_instance = PyNone

(* C3 as stated: in every emitted datagram each field's declared length     *)
(* equals the number of bytes that follow the length prefix in that field.  *)
C3_LengthCountsFollowingBytes ==
  \A d \in OnWire :
    LET f == BuiltFields(d)
    IN  \A i \in 1..8 : U16At(f[i], 3) = Len(f[i]) - 4

(* C3 amended: in every emitted datagram each field's declared length       *)
(* equals the size of the whole field, its 4-byte type and length header    *)
(* included, so that the declared lengths cut the datagram into exactly     *)
(* the fields dispatch() built.                                             *)
C3_LengthCountsWholeField ==
  \A d \in OnWire :
    LET f == BuiltFields(d)
        p == ParseParts(d.msg)
    IN  /\ \A i \in 1..8 : U16At(f[i], 3) = Len(f[i])
        /\ Len(p) = 8
        /\ \A i \in 1..8 :
             /\ p[i].len = Len(f[i])
             /\ p[i].payload = SubSeq(f[i], 5, Len(f[i]))

C3_Witness ==
  \E d \in OnWire :
    /\ Len(self.values.v) = 2
    /\ self.plugin_instance = PyStr(Bytes("pi"))
    /\ self.type_instance = PyStr(Bytes("ti"))
    /\ self.time = PyNone

(* C4: every emitted datagram is exactly the eight fields Host, Time,       *)
(* Plugin, Plugin Instance, Type, Interval, Type Instance, Values, in that  *)
(* order, whatever the sample's values and the earlier calls.               *)
C4_FieldOrder ==
  \A d \in OnWire : Codes(d.msg) = WireOrder

\* two datagrams of a sample whose strings are empty where they may be
C4_Witness ==
  /\ Len(wire) = 2
  /\ Codes(wire[2].msg) = WireOrder
  /\ self.plugin_instance = PyStr(Bytes(""))
  /\ self.type_instance = PyStr(Bytes(""))
  /\ self.plugin_type = PyStr(Bytes("cpu"))

(* C5: for a sample of n >= 1 values the Values field has type 6, declared  *)
(* length 6 + 9n, count n, then n tags equal to 1 (Gauge), then n 8-byte    *)
(* payloads, the i-th encoding the i-th value.                              *)
C5_ValuesLayout ==
  \A d \in OnWire :
    LET n == Len(self.values.v)
        f == BuiltFields(d)[8]
        p == ParseParts(d.msg)
    IN  n >= 1 =>
          /\ U16At(f, 1) = TYPE_VALUES
          /\ U16At(f, 3) = 6 + 9 * n
          /\ U16At(f, 5) = n
          /\ Len(f) = 6 + 9 * n
          /\ \A i \in 1..n : f[6 + i] = 1
          /\ \A i \in 1..n :
               /\ SubSeq(f, 6 + n + 8 * (i - 1) + 1, 6 + n + 8 * i)
                    = F64LE(self.values.v[i])
               /\ F64Of(SubSeq(f, 6 + n + 8 * (i - 1) + 1, 6 + n + 8 * i))
                    = self.values.v[i]
          /\ Len(p) = 8
          /\ ValuesOf(p[8]).vals = self.values.v

C5_Witness ==
  \E d \in OnWire :
    /\ self.values = PyList(<<3, -2>>)
    /\ ValuesOf(ParseParts(d.msg)[8]).count = 2

(* C6 as stated: for every string code T and every string s without NUL,   *)
(* pack_string(T, s) is T, the length 5 + len(s), the bytes of s and one    *)
(* NUL, and decodes to (T, s).                                              *)
\* no NUL in the string an argument expression evaluates to
NoNul(x) ==
  IF x.tag = "str*" THEN x.v[2] = 0 \/ x.v[1] # 0
  ELSE \A i \in 1..Len(x.v) : x.v[i] # 0

C6_Case ==
  /\ pk.out # NoOutcome
  /\ pk.id.tag = "int"
  /\ pk.id.v[1] \in STRING_CODES
  /\ Eval(pk.value).tag = "str"
  /\ NoNul(pk.value)

C6_RoundTrip ==
  LET s == Eval(pk.value).v
  IN  /\ pk.out.exc = ""
      /\ Len(pk.out.bytes) = 5 + Len(s)
      /\ U16At(pk.out.bytes, 1) = pk.id.v[1]
      /\ U16At(pk.out.bytes, 3) = 5 + Len(s)
      /\ SubSeq(pk.out.bytes, 5, 4 + Len(s)) = s
      /\ pk.out.bytes[Len(pk.out.bytes)] = 0
      /\ decode_string(pk.out.bytes) = [code |-> pk.id.v[1], text |-> s]

C6_EveryString == C6_Case => C6_RoundTrip

(* C6 amended: the same for every string s without NUL of at most 65530     *)
(* bytes (the length 5 + len(s) of a longer one does not fit the 16-bit     *)
(* length field, and struct.pack refuses it).                               *)
C6_StringsThatFit ==
  (C6_Case /\ Len(Eval(pk.value).v) <= USHRT_MAX - 5) => C6_RoundTrip

\* the longest string that fits, packed
C6_Witness ==
  /\ C6_Case
  /\ pk.id.v[1] = TYPE_PLUGIN_INSTANCE
  /\ Len(Eval(pk.value).v) = USHRT_MAX - 5
  /\ pk.out.exc = ""

(* C7: after packet() with plugin_instance left at its default and/or       *)
(* type_instance left empty, dispatch() succeeds and the datagram has a     *)
(* Plugin Instance and a Type Instance field with empty text (length 5).    *)
(* (Fails: the default plugin_instance is None and len(None) raises.)       *)
C7_AbsentIsEmpty ==
  \A c \in Callers :
    ( /\ pc[c] = 0
      /\ result[c] \notin {"none", "socket.error"}
      /\ args[c].type_instance # PyNone
      /\ \/ args[c].plugin_instance = DefaultPluginInstance
         \/ args[c].type_instance = DefaultTypeInstance )
    => /\ result[c] = "ok"
       /\ wire # <<>>
       /\ Codes(wire[Len(wire)].msg) = WireOrder
       /\ (args[c].plugin_instance = DefaultPluginInstance
             => ParseParts(wire[Len(wire)].msg)[4].len = 5)
       /\ (args[c].type_instance = DefaultTypeInstance
             => ParseParts(wire[Len(wire)].msg)[7].len = 5)

(* C8: an empty values sequence is rejected by packet(), and no datagram    *)
(* with a Values count of 0 reaches the socket.  (Fails: packet() checks    *)
(* nothing and has no failing outcome, so the formula states what follows   *)
(* on the wire.)                                                            *)
C8_NoEmptyValues ==
  \A d \in OnWire : U16At(BuiltFields(d)[8], 5) # 0

(* C9: after one packet() call with an explicit time, consecutive           *)
(* dispatch() calls emit the same bytes and leave the stored sample, the    *)
(* interval and the address as they were; with the time unset the           *)
(* datagrams differ in the Time field only.  (Fails for time = 0.)          *)
C9_Idempotent ==
  /\ \A d, e \in OnWire :
       /\ args[1].time # PyNone => d.msg = e.msg
       /\ \A i \in 1..8 : i # 2 => BuiltFields(d)[i] = BuiltFields(e)[i]
       /\ d.to = e.to
  /\ \A f \in DOMAIN NoArgs : self[f] = args[1][f]
  /\ self.interval \in Intervals
  /\ self.collectd_addr = [host |-> "localhost", port |-> 25826]

(* C10: the Time field is the caller's timestamp whenever packet() got one, *)
(* 0 included, and the clock read during that dispatch() call only when     *)
(* the time was left unset.  (Fails for time = 0: "self.time or ...".)      *)
C10_TimeField ==
  \A d \in OnWire :
    LET secs == I64Of(SubSeq(d.parts[2], 5, 12))
    IN  IF args[d.by].time.tag = "int"
        THEN secs = args[d.by].time.v[1]
        ELSE /\ d.began \div TicksPerSecond <= secs
             /\ secs <= d.ended \div TicksPerSecond

=============================================================================
